---------------------------- MODULE Spec2Model ----------------------------
(***************************************************************************)
(* Ghost-bus detector: the per-vehicle history window kept in Redis, the   *)
(* detection rules and the score (backend/app/detector.py), the recurring  *)
(* ghost statistics (backend/app/storage.py) and the two producers that    *)
(* feed samples into the detector (backend/app/ingester.py and             *)
(* backend/publisher.py).                                                  *)
(*                                                                         *)
(* Units.  Time is in whole seconds (time.time() and datetime.now() read   *)
(* the same clock, the variable now).  A latitude is an integer number of  *)
(* 1e-4 degrees; every sample of the model has the same longitude, where   *)
(* the haversine formula reduces to R * |dlat| (see haversine_distance).   *)
(* Distances are in centimetres.  avg_ghost_score, a float in the code, is *)
(* an exact fraction <<numerator, denominator>> in lowest terms.           *)
(***************************************************************************)
EXTENDS Integers, Sequences, FiniteSets, TLC

VARIABLES
    now,                \* the wall clock, seconds
    redis,              \* the Redis keys vehicle:history:<id>: list and expiry
    recurring_ghosts,   \* the rows of the table recurring_ghosts
    sample,             \* the last vehicle_data handed to the code
    out,                \* what the last call returned
    pushed,             \* per vehicle, every item pushed so far, oldest first
    window_start,       \* per vehicle, Len(pushed) when its key was last created
    seen,               \* per vehicle, what the reputation tracker was shown
    fed,                \* per vehicle, the input samples the producers took
    sim_lat,            \* simulate_bus: the local variable lat of each bus thread
    published,          \* the messages published on the channel vehicles:updates
    postgres,           \* the database server: "up" or "down"
    running,            \* publisher.py: the bus threads that are alive
    connections,        \* main.py: the set connections
    socket,             \* per websocket, the state of its client end
    handler,            \* per websocket, its ws_endpoint coroutine
    pubsub,             \* per websocket, the subscription its coroutine holds
    vehicle_positions,  \* the rows of the table vehicle_positions, oldest first
    received,           \* per websocket, the texts its client received
    audience,           \* per publication, the websockets registered in
                        \* connections and those subscribed when it was made
    inflight            \* per worker process, the store call it is inside of

\* The websocket side (main.py).
ws_vars == <<connections, socket, handler, pubsub, received, audience>>

vars == <<now, redis, recurring_ghosts, sample, out, pushed, window_start, seen,
          fed, sim_lat, published, postgres, running, vehicle_positions, inflight, ws_vars>>

---------------------------------------------------------------------------
(* Program constants *)

STALE_THRESHOLD == 300
STATIONARY_THRESHOLD == 600
HISTORY_TTL == 86400
HISTORY_LAST_INDEX == 49
STATIONARY_RADIUS_CM == 5000
EARTH_RADIUS_KM == 6371
MAX_SPEED == 80
RECURRING_FLAGS == 5
RECURRING_DAYS == 7
SECONDS_PER_DAY == 86400
SIM_STALE_AGE == 400
SIM_STEP == 10
WEIGHT_STALE == 40
WEIGHT_STATIONARY == 30
WEIGHT_OFF_ROUTE == 30
WEIGHT_SPEED == 20
SCORE_CAP == 100
GHOST_THRESHOLD == 50

(* Bounds of the model *)

StartTime == 1000000    \* the clock at Init; large enough for "timestamp 0"
MaxPushes == 52         \* SpecHistory: record calls per run
MaxExpiries == 1        \* SpecHistory: idle periods of HISTORY_TTL per run
MaxHistory == 3         \* SpecRules: length of the history snapshot
MaxObservations == 6    \* SpecRep: observe calls per run
MaxSamples == 2         \* Spec: input samples per run
MaxTicks == 2           \* Spec, SpecRep: clock steps per run

Vehicles == {"bus_001", "ghost_bus_001"}

Clients == {"ws1", "ws2"}

\* The processes that share Redis and the database: ingester.py and
\* publisher.py each run analyze_vehicle on their own.
Workers == {"ingester", "publisher"}

None == -1              \* Python None / SQL NULL in a time column
NaN == 999999           \* a float nan in a latitude (no valid latitude)
NoExpiry == -1          \* a key without a TTL

---------------------------------------------------------------------------
(* Python and arithmetic helpers *)

Min(a, b) == IF a <= b THEN a ELSE b

Abs(a) == IF a < 0 THEN -a ELSE a

RECURSIVE GCD(_, _)
GCD(a, b) == IF b = 0 THEN a ELSE GCD(b, a % b)

\* dict.get(key, default)
Get(d, key, default) == IF key \in DOMAIN d THEN d[key] ELSE default

\* An exact fraction in lowest terms.
Frac(n, d) == LET g == GCD(n, d) IN <<n \div g, d \div g>>

RECURSIVE Reverse(_)
Reverse(s) == IF s = <<>> THEN <<>> ELSE Append(Reverse(Tail(s)), Head(s))

\* str(vehicle_data): the text Redis stores.  The text determines the dict
\* whenever eval can read it back.
PyStr(d) == [text |-> d]

\* eval(item) raises for the text of a dict that holds a float nan
\* ("{'lat': nan}": name 'nan' is not defined); otherwise it gives the dict.
EvalRaises(item) ==
    \E k \in DOMAIN item.text : k \in {"lat", "lon"} /\ item.text[k] = NaN

PyEval(item) == item.text

---------------------------------------------------------------------------
(* detector.py: haversine_distance.  For lon1 = lon2 the code computes     *)
(* a = sin^2(dlat/2), c = 2*atan2(sqrt(a), sqrt(1-a)) = |dlat| and returns *)
(* R * |dlat| with dlat in radians.  With latitudes in 1e-4 degrees and    *)
(* pi/180 = 0.017453 that is 6371 * 0.17453 * |dlat| centimetres.          *)

haversine_distance(lat1, lon1, lat2, lon2) ==
    (EARTH_RADIUS_KM * 17453 * Abs(lat2 - lat1)) \div 100000

---------------------------------------------------------------------------
(* Redis: one key per vehicle, a list with an optional expiry time.  An    *)
(* expired key is invisible to every command (Redis removes it lazily).    *)

EmptyKey == [list |-> <<>>, expire_at |-> NoExpiry]

Expired(key, t) == key.expire_at # NoExpiry /\ t >= key.expire_at

Live(key, t) == IF Expired(key, t) THEN EmptyKey ELSE key

lrange(r, v, t) == Live(r[v], t).list

lpush(r, v, item, t) ==
    LET k == Live(r[v], t)
    IN  [r EXCEPT ![v] = [k EXCEPT !.list = <<item>> \o k.list]]

ltrim(r, v, stop, t) ==
    LET k == Live(r[v], t)
    IN  [r EXCEPT ![v] = [k EXCEPT !.list =
            SubSeq(k.list, 1, Min(Len(k.list), stop + 1))]]

expire(r, v, ttl, t) ==
    LET k == Live(r[v], t)
    IN  IF k.list = <<>> THEN [r EXCEPT ![v] = EmptyKey]
        ELSE [r EXCEPT ![v] = [k EXCEPT !.expire_at = t + ttl]]

---------------------------------------------------------------------------
(* detector.py: the history window *)

\* get_vehicle_history: the items eval can read, in list order.
get_vehicle_history(r, v, t) ==
    LET data == lrange(r, v, t)
        ok == SelectSeq(data, LAMBDA item : ~EvalRaises(item))
    IN  [i \in 1..Len(ok) |-> PyEval(ok[i])]

\* update_vehicle_history "fixed" to evict by timestamp: on overflow the entry
\* with the oldest timestamp goes, not the oldest push.
EvictOldestTimestamp(list) ==
    IF Len(list) <= HISTORY_LAST_INDEX + 1 THEN list
    ELSE LET ts(i) == Get(PyEval(list[i]), "timestamp", 0)
             victim == CHOOSE i \in 1..Len(list) :
                          /\ \A j \in 1..Len(list) : ts(i) <= ts(j)
                          /\ \A j \in 1..Len(list) : ts(j) = ts(i) => j <= i
         IN  SubSeq(list, 1, victim - 1) \o SubSeq(list, victim + 1, Len(list))

update_vehicle_history_by_timestamp(r, v, vehicle_data, t) ==
    LET r1 == lpush(r, v, PyStr(vehicle_data), t)
        r2 == [r1 EXCEPT ![v].list = EvictOldestTimestamp(@)]
    IN  expire(r2, v, HISTORY_TTL, t)

\* update_vehicle_history with one history key for all vehicles.
update_vehicle_history_shared(r, v, vehicle_data, t) ==
    LET k == Live(r[v], t)
        list == SubSeq(<<PyStr(vehicle_data)>> \o k.list, 1,
                       Min(Len(k.list) + 1, HISTORY_LAST_INDEX + 1))
    IN  [w \in DOMAIN r |-> [list |-> list, expire_at |-> t + HISTORY_TTL]]

update_vehicle_history(r, v, vehicle_data, t) ==
    expire(ltrim(lpush(r, v, PyStr(vehicle_data), t), v, HISTORY_LAST_INDEX, t),
           v, HISTORY_TTL, t)

---------------------------------------------------------------------------
(* detector.py: the detection rules *)

\* detect_stale_data with ">=" for ">".
detect_stale_data_ge(vehicle_data, t) ==
    t - Get(vehicle_data, "timestamp", t) >= STALE_THRESHOLD

\* detect_stale_data taking a missing timestamp for 0, as detect_stationary
\* does, instead of for the current time.
detect_stale_data_epoch(vehicle_data, t) ==
    t - Get(vehicle_data, "timestamp", 0) > STALE_THRESHOLD

detect_stale_data(vehicle_data, t) ==
    LET current_time == t
        last_update == Get(vehicle_data, "timestamp", current_time)
    IN  current_time - last_update > STALE_THRESHOLD

\* recent_positions of detect_stationary: the history entries young enough.
recent_positions(history, t) ==
    SelectSeq(history,
              LAMBDA pos_data : t - Get(pos_data, "timestamp", 0) <= STATIONARY_THRESHOLD)

\* pos_data['lat'] / pos_data['lon'] of an entry without the key raises KeyError.
detect_stationary_raises(r, v, t) ==
    LET history == get_vehicle_history(r, v, t)
    IN  /\ Len(history) >= 2
        /\ \E i \in 1..Len(history) :
              /\ t - Get(history[i], "timestamp", 0) <= STATIONARY_THRESHOLD
              /\ ~({"lat", "lon"} \subseteq DOMAIN history[i])

\* detect_stationary comparing every recent position with the one before it.
detect_stationary_pairwise(r, v, current_pos, t) ==
    LET history == get_vehicle_history(r, v, t)
        recent == recent_positions(history, t)
    IN  IF Len(history) < 2 THEN FALSE
        ELSE IF Len(recent) < 2 THEN FALSE
        ELSE \A i \in 2..Len(recent) :
                ~(haversine_distance(recent[i - 1].lat, recent[i - 1].lon,
                                     recent[i].lat, recent[i].lon)
                    > STATIONARY_RADIUS_CM)

detect_stationary(r, v, current_pos, t) ==
    LET history == get_vehicle_history(r, v, t)
        recent == recent_positions(history, t)
    IN  IF Len(history) < 2 THEN FALSE
        ELSE IF Len(recent) < 2 THEN FALSE
        ELSE \A i \in 2..Len(recent) :
                ~(haversine_distance(recent[1].lat, recent[1].lon,
                                     recent[i].lat, recent[i].lon)
                    > STATIONARY_RADIUS_CM)

\* detect_off_route enabled and firing for every sample.
detect_off_route_always(vehicle_data) == TRUE

\* detect_off_route as test_detect_off_route expects it: a bounding box
\* around the service area, in 1e-4 degrees.
detect_off_route_bounds(vehicle_data) ==
    ~(/\ vehicle_data.lat \in 128000..132000
      /\ vehicle_data.lon \in 774000..778000)

detect_off_route(vehicle_data) == FALSE

\* calculate_ghost_score without the test for a negative speed.
calculate_ghost_score_fast_only(r, vehicle_data, v, t) ==
    LET s1 == IF detect_stale_data(vehicle_data, t) THEN WEIGHT_STALE ELSE 0
        s2 == s1 + (IF detect_stationary(r, v, <<vehicle_data.lat, vehicle_data.lon>>, t)
                    THEN WEIGHT_STATIONARY ELSE 0)
        s3 == s2 + (IF detect_off_route(vehicle_data) THEN WEIGHT_OFF_ROUTE ELSE 0)
        speed == Get(vehicle_data, "speed", 0)
        s4 == s3 + (IF speed > MAX_SPEED THEN WEIGHT_SPEED ELSE 0)
    IN  Min(s4, SCORE_CAP)

\* calculate_ghost_score taking a stopped vehicle (speed 0) for a speed
\* anomaly, as the comment "too fast or stopped" has it.
calculate_ghost_score_stopped(r, vehicle_data, v, t) ==
    LET s1 == IF detect_stale_data(vehicle_data, t) THEN WEIGHT_STALE ELSE 0
        s2 == s1 + (IF detect_stationary(r, v, <<vehicle_data.lat, vehicle_data.lon>>, t)
                    THEN WEIGHT_STATIONARY ELSE 0)
        s3 == s2 + (IF detect_off_route(vehicle_data) THEN WEIGHT_OFF_ROUTE ELSE 0)
        speed == Get(vehicle_data, "speed", 0)
        s4 == s3 + (IF speed > MAX_SPEED \/ speed <= 0 THEN WEIGHT_SPEED ELSE 0)
    IN  Min(s4, SCORE_CAP)

calculate_ghost_score(r, vehicle_data, v, t) ==
    LET s1 == IF detect_stale_data(vehicle_data, t) THEN WEIGHT_STALE ELSE 0
        s2 == s1 + (IF detect_stationary(r, v, <<vehicle_data.lat, vehicle_data.lon>>, t)
                    THEN WEIGHT_STATIONARY ELSE 0)
        s3 == s2 + (IF detect_off_route(vehicle_data) THEN WEIGHT_OFF_ROUTE ELSE 0)
        speed == Get(vehicle_data, "speed", 0)
        s4 == s3 + (IF speed > MAX_SPEED \/ speed < 0 THEN WEIGHT_SPEED ELSE 0)
    IN  Min(s4, SCORE_CAP)

---------------------------------------------------------------------------
(* storage.py: the table recurring_ghosts, one row per vehicle_id *)

NewRecurringGhost(v) ==
    [vehicle_id |-> v, total_flags |-> 0, first_flag_time |-> None,
     last_flag_time |-> None, avg_ghost_score |-> <<0, 1>>, is_recurring |-> FALSE]

RowsOf(table, v) == {row \in table : row.vehicle_id = v}

\* The running average taken as the mean of the old average and the score.
RunningAverage_halved(avg, n, ghost_score) ==
    Frac(avg[1] + ghost_score * avg[2], avg[2] * 2)

\* (avg * (n - 1) + ghost_score) / n for the fraction avg
RunningAverage(avg, n, ghost_score) ==
    Frac(avg[1] * (n - 1) + ghost_score * avg[2], avg[2] * n)

\* FlagRow marking the vehicle only when flagged more than 5 times.
FlagRow_more_than(row, ghost_score, t) ==
    LET n == row.total_flags + 1
        flagged == [row EXCEPT
            !.first_flag_time = IF row.first_flag_time = None THEN t ELSE @,
            !.last_flag_time = t,
            !.total_flags = n,
            !.avg_ghost_score = IF n > 1 THEN RunningAverage(@, n, ghost_score)
                                ELSE Frac(ghost_score, 1)]
    IN  IF n > RECURRING_FLAGS THEN [flagged EXCEPT !.is_recurring = TRUE]
        ELSE flagged

\* FlagRow stamping first_flag_time on every flag.
FlagRow_restamp(row, ghost_score, t) ==
    LET n == row.total_flags + 1
        flagged == [row EXCEPT
            !.first_flag_time = t,
            !.last_flag_time = t,
            !.total_flags = n,
            !.avg_ghost_score = IF n > 1 THEN RunningAverage(@, n, ghost_score)
                                ELSE Frac(ghost_score, 1)]
    IN  IF n >= RECURRING_FLAGS THEN [flagged EXCEPT !.is_recurring = TRUE]
        ELSE flagged

\* The row after the branch "if is_ghost:" of update_recurring_ghost_stats.
FlagRow(row, ghost_score, t) ==
    LET n == row.total_flags + 1
        flagged == [row EXCEPT
            !.first_flag_time = IF row.first_flag_time = None THEN t ELSE @,
            !.last_flag_time = t,
            !.total_flags = n,
            !.avg_ghost_score = IF n > 1 THEN RunningAverage(@, n, ghost_score)
                                ELSE Frac(ghost_score, 1)]
    IN  IF n >= RECURRING_FLAGS THEN [flagged EXCEPT !.is_recurring = TRUE]
        ELSE flagged

\* update_recurring_ghost_stats clearing is_recurring on a non-ghost event.
update_recurring_ghost_stats_decay(table, v, ghost_score, is_ghost, t) ==
    LET found == RowsOf(table, v)
        recurring == IF found = {} THEN NewRecurringGhost(v)
                     ELSE CHOOSE row \in found : TRUE
        updated == IF is_ghost THEN FlagRow(recurring, ghost_score, t)
                   ELSE [recurring EXCEPT !.is_recurring = FALSE]
    IN  (table \ {recurring}) \cup {updated}

\* update_recurring_ghost_stats stamping last_flag_time on every event.
update_recurring_ghost_stats_touch(table, v, ghost_score, is_ghost, t) ==
    LET found == RowsOf(table, v)
        recurring == IF found = {} THEN NewRecurringGhost(v)
                     ELSE CHOOSE row \in found : TRUE
        updated == IF is_ghost THEN FlagRow(recurring, ghost_score, t)
                   ELSE [recurring EXCEPT !.last_flag_time = t]
    IN  (table \ {recurring}) \cup {updated}

update_recurring_ghost_stats(table, v, ghost_score, is_ghost, t) ==
    LET found == RowsOf(table, v)
        recurring == IF found = {} THEN NewRecurringGhost(v)
                     ELSE CHOOSE row \in found : TRUE
        updated == IF is_ghost THEN FlagRow(recurring, ghost_score, t) ELSE recurring
    IN  (table \ {recurring}) \cup {updated}

\* get_recurring_ghosts without the filter on last_flag_time.
get_recurring_ghosts_ever(table, t) == {row \in table : row.is_recurring}

get_recurring_ghosts(table, t) ==
    LET cutoff_time == t - RECURRING_DAYS * SECONDS_PER_DAY
    IN  {row \in table : /\ row.is_recurring
                         /\ row.last_flag_time # None
                         /\ row.last_flag_time >= cutoff_time}

---------------------------------------------------------------------------
(* detector.py: analyze_vehicle.  st is the stored state [redis,            *)
(* recurring_ghosts, postgres]; t is the clock when the call starts and    *)
(* t2 >= t the clock when the record is assembled and the storage is       *)
(* updated.  The result carries the new stored state, whether the call     *)
(* raised, and the enriched record it returned.                            *)

\* The KeyError of vehicle_data['lat'] / ['lon'] (line 163) or of a history
\* entry inside detect_stationary, raised after the history was updated.
ScoreRaises(r, vehicle_data, v, t) ==
    \/ ~({"lat", "lon"} \subseteq DOMAIN vehicle_data)
    \/ detect_stationary_raises(r, v, t)

\* The verdict taken at the stale weight instead of above the threshold.
IsGhost_from_stale(ghost_score) == ghost_score >= WEIGHT_STALE

IsGhost(ghost_score) == ghost_score > GHOST_THRESHOLD

\* Lines 203-219: the reputation was updated to table; read back whether the
\* vehicle is a recurring ghost and return the enriched record.
analyze_stored(vehicle_data, vehicle_id, r1, ghost_score, table, t2) ==
    [redis |-> r1, recurring_ghosts |-> table, raised |-> FALSE,
     ret |-> [ghost_score |-> ghost_score,
              is_ghost |-> IsGhost(ghost_score),
              detection_timestamp |-> t2,
              detection_rules |->
                 [stale |-> detect_stale_data(vehicle_data, t2),
                  stationary |-> detect_stationary(r1, vehicle_id,
                                    <<vehicle_data.lat, vehicle_data.lon>>, t2),
                  off_route |-> detect_off_route(vehicle_data)],
              is_recurring_ghost |->
                 \E rg \in get_recurring_ghosts(table, t2) : rg.vehicle_id = vehicle_id]
             @@ vehicle_data]

\* The except branch leaving the record without the recurring ghost field.
\* analyze_vehicle without the try around the storage calls: the error of the
\* database leaves the function.
analyze_unavailable_raises(vehicle_data, vehicle_id, r1, ghost_score, table, t2) ==
    [redis |-> r1, recurring_ghosts |-> table, raised |-> TRUE, ret |-> <<>>]

analyze_unavailable_bare(vehicle_data, vehicle_id, r1, ghost_score, table, t2) ==
    [analyze_stored(vehicle_data, vehicle_id, r1, ghost_score, table, t2)
        EXCEPT !.ret = [k \in (DOMAIN @) \ {"is_recurring_ghost"} |-> @[k]]]

\* Lines 214-217: a storage call raised (the database is down); the table is
\* as it was and the record says the vehicle is no recurring ghost.
analyze_unavailable(vehicle_data, vehicle_id, r1, ghost_score, table, t2) ==
    [analyze_stored(vehicle_data, vehicle_id, r1, ghost_score, table, t2)
        EXCEPT !.ret.is_recurring_ghost = FALSE]

\* Lines 187-207: the score is known; derive the verdict and update the
\* recurring ghost statistics.
analyze_scored(st, vehicle_data, vehicle_id, r1, ghost_score, t2) ==
    IF st.postgres = "down"
    THEN analyze_unavailable(vehicle_data, vehicle_id, r1, ghost_score,
                             st.recurring_ghosts, t2)
    ELSE analyze_stored(vehicle_data, vehicle_id, r1, ghost_score,
                        update_recurring_ghost_stats(st.recurring_ghosts, vehicle_id,
                                                     ghost_score, IsGhost(ghost_score), t2),
                        t2)

\* Lines 184-185: the history was updated to r1; compute the score.
analyze_pushed(st, vehicle_data, vehicle_id, r1, t, t2) ==
    IF ScoreRaises(r1, vehicle_data, vehicle_id, t)
         \/ ScoreRaises(r1, vehicle_data, vehicle_id, t2)
    THEN [redis |-> r1, recurring_ghosts |-> st.recurring_ghosts,
          raised |-> TRUE, ret |-> <<>>]
    ELSE analyze_scored(st, vehicle_data, vehicle_id, r1,
                        calculate_ghost_score(r1, vehicle_data, vehicle_id, t), t2)

analyze_vehicle(st, vehicle_data, t, t2) ==
    IF "vehicle_id" \notin DOMAIN vehicle_data
    THEN [redis |-> st.redis, recurring_ghosts |-> st.recurring_ghosts,
          raised |-> TRUE, ret |-> <<>>]
    ELSE analyze_pushed(st, vehicle_data, vehicle_data.vehicle_id,
                        update_vehicle_history(st.redis, vehicle_data.vehicle_id,
                                               vehicle_data, t),
                        t, t2)

---------------------------------------------------------------------------
(* State shared by the specifications *)

NoCall == [fn |-> "none"]

NoSample == <<>>

NoSeen == [n |-> 0, flags |-> 0, sum |-> 0]

NoFed == [n |-> 0, ghosts |-> 0, direct |-> 0]

\* A websocket nobody opened: no coroutine, no subscription, nothing received.
NoHandler == [pc |-> "none", data |-> <<>>, todo |-> {}, conn |-> "none"]

NoPubSub == [subscribed |-> FALSE, inbox |-> <<>>]

\* A worker between two store calls.
NoOp == [op |-> "none"]

\* No client connected, every bus thread started, the database reachable.
FreshServer ==
    /\ postgres = "up"
    /\ running = Vehicles
    /\ vehicle_positions = <<>>
    /\ connections = {}
    /\ socket = [c \in Clients |-> "none"]
    /\ handler = [c \in Clients |-> NoHandler]
    /\ pubsub = [c \in Clients |-> NoPubSub]
    /\ received = [c \in Clients |-> <<>>]
    /\ audience = <<>>
    /\ inflight = [p \in Workers |-> NoOp]

\* The state before any call: empty Redis, empty table, nothing counted.
Fresh ==
    /\ now = StartTime
    /\ redis = [v \in Vehicles |-> EmptyKey]
    /\ recurring_ghosts = {}
    /\ sample = NoSample
    /\ out = NoCall
    /\ pushed = [v \in Vehicles |-> <<>>]
    /\ window_start = [v \in Vehicles |-> 0]
    /\ seen = [v \in Vehicles |-> NoSeen]
    /\ fed = [v \in Vehicles |-> NoFed]
    /\ sim_lat = [v \in Vehicles |-> 0]
    /\ published = <<>>
    /\ FreshServer

\* All sequences over S of length at most n.
SeqUpTo(S, n) == UNION {[1..k -> S] : k \in 0..n}

\* A dict with the keys of a position sample; a field given as Absent is left out.
Absent == -999999

MakeSample(v, lat, timestamp, speed) ==
    LET base == [vehicle_id |-> v, trip_id |-> "trip", route_id |-> "route",
                 lat |-> lat, lon |-> 0, bearing |-> 0]
        withTime == IF timestamp = Absent THEN base
                    ELSE [timestamp |-> timestamp] @@ base
    IN  IF speed = Absent THEN withTime ELSE [speed |-> speed] @@ withTime

\* The look-back period of get_recurring_ghosts (days = 7), in seconds.
Lookback == RECURRING_DAYS * SECONDS_PER_DAY

\* Clock steps taken so far, the steps being 1 and big seconds.
TicksTaken(big) == ((now - StartTime) \div big) + ((now - StartTime) % big)

---------------------------------------------------------------------------
(* SpecRules: the rules and the score as functions of a sample, a history  *)
(* snapshot and the clock.  Init draws the sample and the stored history   *)
(* of one vehicle; each action is one direct call.                         *)

RuleVehicle == "bus_001"

RuleLats == {0, 4, 8, NaN}

RuleHistoryTimes == {Absent, StartTime - 600, StartTime - 601}

RuleSampleTimes == {Absent, StartTime - 300, StartTime - 301}

RuleSpeeds == {Absent, 80, 81, -1}

RuleItems ==
    {PyStr(MakeSample(RuleVehicle, lat, ts, 0)) :
        lat \in RuleLats, ts \in RuleHistoryTimes}

RuleSamples ==
    {MakeSample(RuleVehicle, 0, ts, speed) :
        ts \in RuleSampleTimes, speed \in RuleSpeeds}

InitRules ==
    /\ now = StartTime
    /\ \E h \in SeqUpTo(RuleItems, MaxHistory) :
          redis = [v \in Vehicles |->
                    IF v = RuleVehicle /\ h # <<>>
                    THEN [list |-> h, expire_at |-> StartTime + HISTORY_TTL]
                    ELSE EmptyKey]
    /\ recurring_ghosts = {}
    /\ sample \in RuleSamples
    /\ out = NoCall
    /\ pushed = [v \in Vehicles |-> <<>>]
    /\ window_start = [v \in Vehicles |-> 0]
    /\ seen = [v \in Vehicles |-> NoSeen]
    /\ fed = [v \in Vehicles |-> NoFed]
    /\ sim_lat = [v \in Vehicles |-> 0]
    /\ published = <<>>
    /\ FreshServer

CallDetectStale ==
    /\ out' = [fn |-> "detect_stale_data", value |-> detect_stale_data(sample, now)]
    /\ UNCHANGED <<now, redis, recurring_ghosts, sample, pushed, window_start,
                   seen, fed, sim_lat, published>>
    /\ UNCHANGED <<postgres, running, vehicle_positions, inflight, ws_vars>>

CallDetectStationary ==
    /\ out' = [fn |-> "detect_stationary",
               value |-> detect_stationary(redis, sample.vehicle_id,
                                           <<sample.lat, sample.lon>>, now)]
    /\ UNCHANGED <<now, redis, recurring_ghosts, sample, pushed, window_start,
                   seen, fed, sim_lat, published>>
    /\ UNCHANGED <<postgres, running, vehicle_positions, inflight, ws_vars>>

CallCalculateGhostScore ==
    /\ out' = [fn |-> "calculate_ghost_score",
               value |-> calculate_ghost_score(redis, sample, sample.vehicle_id, now)]
    /\ UNCHANGED <<now, redis, recurring_ghosts, sample, pushed, window_start,
                   seen, fed, sim_lat, published>>
    /\ UNCHANGED <<postgres, running, vehicle_positions, inflight, ws_vars>>

NextRules == CallDetectStale \/ CallDetectStationary \/ CallCalculateGhostScore

SpecRules == InitRules /\ [][NextRules]_vars

---------------------------------------------------------------------------
(* SpecHistory: direct record calls (update_vehicle_history) for one       *)
(* vehicle, and idle periods of HISTORY_TTL seconds.  The samples are      *)
(* numbered through their bearing so that the order of the pushes shows.   *)
(* A sample carries the current time; once the window is full it may       *)
(* instead be backdated by SIM_STALE_AGE seconds.                          *)

HistoryVehicle == "bus_001"

\* The ghost log of the pushes: every item, and where the live key began.
LogPush(v, item) ==
    /\ pushed' = [pushed EXCEPT ![v] = Append(@, item)]
    /\ window_start' = [window_start EXCEPT ![v] =
            IF lrange(redis, v, now) = <<>> THEN Len(pushed[v]) ELSE @]

Record(v, vehicle_data) ==
    /\ Len(pushed[v]) < MaxPushes
    /\ redis' = update_vehicle_history(redis, v, vehicle_data, now)
    /\ LogPush(v, PyStr(vehicle_data))
    /\ sample' = vehicle_data
    /\ out' = [fn |-> "update_vehicle_history"]
    /\ UNCHANGED <<now, recurring_ghosts, seen, fed, sim_lat, published>>
    /\ UNCHANGED <<postgres, running, vehicle_positions, inflight, ws_vars>>

RecordNext ==
    \E ts \in {now} \cup (IF Len(lrange(redis, HistoryVehicle, now)) > HISTORY_LAST_INDEX
                           THEN {now - SIM_STALE_AGE} ELSE {}) :
        Record(HistoryVehicle,
               [MakeSample(HistoryVehicle, 0, ts, 0)
                    EXCEPT !.bearing = Len(pushed[HistoryVehicle]) + 1])

\* Nothing touches the key for HISTORY_TTL seconds.
Idle ==
    /\ now < StartTime + MaxExpiries * HISTORY_TTL
    /\ now' = now + HISTORY_TTL
    /\ out' = [fn |-> "idle"]
    /\ UNCHANGED <<redis, recurring_ghosts, sample, pushed, window_start, seen,
                   fed, sim_lat, published>>
    /\ UNCHANGED <<postgres, running, vehicle_positions, inflight, ws_vars>>

NextHistory == RecordNext \/ Idle

SpecHistory == Fresh /\ [][NextHistory]_vars

---------------------------------------------------------------------------
(* Spec: the two producers.  parse_and_publish (ingester.py) takes a feed  *)
(* of vehicle entities and runs each through analyze_vehicle once;         *)
(* simulate_bus (publisher.py) is one iteration of a bus thread's loop.    *)
(* The clock may advance by a second while a producer runs (time.time() is *)
(* read again when the record is assembled) and by STALE_THRESHOLD between *)
(* calls.                                                                  *)

FeedLats == {0, 8}

FeedAges == {0, SIM_STALE_AGE}

FeedSpeeds == {0, 90}

\* What the producers thread through their calls: the stores, the ghost
\* counts, the channel, and the records analyze_vehicle returned.
Stores ==
    [redis |-> redis, recurring_ghosts |-> recurring_ghosts, postgres |-> postgres,
     vehicle_positions |-> vehicle_positions, pushed |-> pushed,
     window_start |-> window_start, seen |-> seen, fed |-> fed,
     published |-> published, records |-> <<>>, raised |-> FALSE,
     save_errors |-> 0, batch |-> <<>>]

\* The same at the start of a run over the given samples.
StoresFor(batch) == [Stores EXCEPT !.batch = batch]

\* The pushes and observations of one analyze_vehicle call, counted.
Logged(st, vehicle_data, v, t, res) ==
    [st EXCEPT
        !.redis = res.redis,
        !.recurring_ghosts = res.recurring_ghosts,
        !.pushed[v] = Append(@, PyStr(vehicle_data)),
        !.window_start[v] = IF lrange(st.redis, v, t) = <<>>
                            THEN Len(st.pushed[v]) ELSE @,
        !.raised = res.raised,
        !.records = IF res.raised THEN @ ELSE Append(@, res.ret),
        !.seen[v] = IF res.raised \/ st.postgres = "down" THEN @
                    ELSE [n |-> @.n + 1,
                          flags |-> @.flags + (IF res.ret.is_ghost THEN 1 ELSE 0),
                          sum |-> @.sum + (IF res.ret.is_ghost
                                           THEN res.ret.ghost_score ELSE 0)]]

\* One call of analyze_vehicle for a sample that names its vehicle.
Analyze(st, vehicle_data, t, t2) ==
    Logged(st, vehicle_data, vehicle_data.vehicle_id, t,
           analyze_vehicle(st, vehicle_data, t, t2))

CountFed_newest_first(st, v, enhanced_msg) ==
    [st EXCEPT !.fed[v] = [@ EXCEPT !.n = @ + 1,
                               !.ghosts = @ + (IF enhanced_msg.is_ghost THEN 1 ELSE 0)],
               !.published = <<enhanced_msg>> \o @]

\* An input sample taken by a producer, and the verdict it published for it.
CountFed(st, v, enhanced_msg) ==
    [st EXCEPT !.fed[v] = [@ EXCEPT !.n = @ + 1,
                               !.ghosts = @ + (IF enhanced_msg.is_ghost THEN 1 ELSE 0)],
               !.published = Append(@, enhanced_msg)]

\* An input sample whose processing raised: taken, nothing published.
CountRaised(st, v) == [st EXCEPT !.fed[v].n = @ + 1]

\* storage.py: save_vehicle_position raises when the database is down, and
\* KeyError for a record without one of the keys it indexes.
SaveRaises(st, vehicle_data) ==
    \/ st.postgres = "down"
    \/ ~({"vehicle_id", "lat", "lon", "timestamp"} \subseteq DOMAIN vehicle_data)

save_vehicle_position(st, vehicle_data) ==
    [st EXCEPT !.vehicle_positions = Append(@, vehicle_data)]

\* ingester.py lines 53-57: the save inside try/except; an error is printed.
TrySave(st, vehicle_data) ==
    IF SaveRaises(st, vehicle_data) THEN [st EXCEPT !.save_errors = @ + 1]
    ELSE save_vehicle_position(st, vehicle_data)

\* ingester.py lines 48-60: save and publish what analyze_vehicle returned.
PublishEntity(a, v) ==
    IF a.raised THEN CountRaised(a, v)
    ELSE CountFed(TrySave(a, a.records[Len(a.records)]), v, a.records[Len(a.records)])

\* ingester.py: the body of the loop over feed.entity for one vehicle entity.
ParseEntity(st, msg, t, t2) ==
    PublishEntity(Analyze(st, msg, t, t2), msg.vehicle_id)

\* ingester.py: parse_and_publish; an exception leaves the loop.
RECURSIVE parse_and_publish(_, _, _, _)
ParseRest(next, rest, t2) ==
    IF next.raised THEN next ELSE parse_and_publish(next, rest, t2, t2)

parse_and_publish(st, entities, t, t2) ==
    IF entities = <<>> THEN st
    ELSE ParseRest(ParseEntity(st, Head(entities), t, t2), Tail(entities), t2)

\* publisher.py line 117: the save outside any try; an error ends the thread.
SaveOrDie(st, vehicle_data) ==
    IF SaveRaises(st, vehicle_data)
    THEN [st EXCEPT !.save_errors = @ + 1, !.raised = TRUE]
    ELSE save_vehicle_position(st, vehicle_data)

\* publisher.py lines 117-120: original_msg was saved, or the save raised.
SimulateSaved(saved, v, enhanced_msg) ==
    IF saved.raised THEN CountRaised(saved, v)
    ELSE CountFed(saved, v, enhanced_msg)

\* publisher.py lines 116-120: the second analyze_vehicle call returned.
SimulateSecond(second, v, enhanced_msg) ==
    IF second.raised THEN CountRaised(second, v)
    ELSE SimulateSaved(SaveOrDie(second, second.records[Len(second.records)]),
                       v, enhanced_msg)

\* publisher.py lines 100-116: the first analyze_vehicle call returned; call
\* it again for the record to save.
SimulateFirst(first, vehicle_data, t2) ==
    IF first.raised THEN CountRaised(first, vehicle_data.vehicle_id)
    ELSE SimulateSecond(Analyze(first, vehicle_data, t2, t2),
                        vehicle_data.vehicle_id, first.records[Len(first.records)])

\* publisher.py: one iteration of simulate_bus: analyze_vehicle at line 98,
\* again at line 116, then publish the first result.
simulate_bus(st, vehicle_data, t, t2) ==
    SimulateFirst(Analyze(st, vehicle_data, t, t2), vehicle_data, t2)

SamplesFed == fed["bus_001"].n + fed["ghost_bus_001"].n

\* The clock readings of a producer run: at its start and at its end.
Drift == {0} \cup (IF TicksTaken(STALE_THRESHOLD) < MaxTicks THEN {1} ELSE {})

\* Redis PUBLISH: each message goes to the subscriptions that exist now.
\* A message is named by its position in the sequence of all publications.
Publish(ps, n, messages) ==
    [c \in Clients |->
        IF ps[c].subscribed
        THEN [ps[c] EXCEPT !.inbox = @ \o [i \in 1..Len(messages) |->
                                              [seq |-> n + i, data |-> messages[i]]]]
        ELSE ps[c]]

Commit(st, fn, d) ==
    /\ now' = now + d
    /\ redis' = st.redis
    /\ recurring_ghosts' = st.recurring_ghosts
    /\ vehicle_positions' = st.vehicle_positions
    /\ pushed' = st.pushed
    /\ window_start' = st.window_start
    /\ seen' = st.seen
    /\ fed' = st.fed
    /\ published' = st.published
    /\ pubsub' = Publish(pubsub, Len(published),
                         SubSeq(st.published, Len(published) + 1, Len(st.published)))
    /\ audience' = audience \o [i \in 1..(Len(st.published) - Len(published)) |->
                                    [registered |-> connections,
                                     subscribed |-> {c \in Clients : pubsub[c].subscribed}]]
    /\ out' = [fn |-> fn, records |-> st.records, raised |-> st.raised,
               save_errors |-> st.save_errors, batch |-> st.batch,
               sent |-> Len(st.published) - Len(published)]
    /\ UNCHANGED <<postgres, connections, socket, handler, received, inflight>>

\* A bus thread ends when its iteration raises.
CommitThread(st, v, d) ==
    /\ Commit(st, "simulate_bus", d)
    /\ running' = IF st.raised THEN running \ {v} ELSE running

FeedEntities ==
    {MakeSample(v, lat, now - age, speed) :
        v \in Vehicles, lat \in FeedLats, age \in FeedAges, speed \in FeedSpeeds}

\* A feed: at least one vehicle entity, at most one entity per vehicle.
Feeds ==
    {f \in SeqUpTo(FeedEntities, Min(Cardinality(Vehicles), MaxSamples - SamplesFed)) :
        /\ f # <<>>
        /\ \A i, j \in 1..Len(f) : f[i].vehicle_id = f[j].vehicle_id => i = j}

\* One run of parse_and_publish over a feed with these vehicle entities.
ParseFeed(entities, d) ==
    /\ sample' = entities[Len(entities)]
    /\ Commit(parse_and_publish(StoresFor(entities), entities, now, now + d),
              "parse_and_publish", d)
    /\ UNCHANGED <<sim_lat, running>>

ParseAndPublish == \E entities \in Feeds, d \in Drift : ParseFeed(entities, d)

\* The bus thread of the stationary ghost bus: same place, speed 0, a
\* timestamp SIM_STALE_AGE seconds old.
SimulateStationary ==
    \E d \in Drift :
        LET vehicle_data == MakeSample("ghost_bus_001", sim_lat["ghost_bus_001"],
                                       now - SIM_STALE_AGE, 0)
        IN  /\ SamplesFed < MaxSamples
            /\ "ghost_bus_001" \in running
            /\ sample' = vehicle_data
            /\ CommitThread(simulate_bus(StoresFor(<<vehicle_data>>), vehicle_data,
                                         now, now + d),
                            "ghost_bus_001", d)
            /\ UNCHANGED sim_lat

\* The bus thread of a normal bus: a random move of at most 0.001 degrees, a
\* speed from the ends of the speed range, the current time.
SimulateNormal ==
    \E d \in Drift, lat \in FeedLats, speed \in {5, 30} :
        LET vehicle_data == MakeSample("bus_001", lat, now, speed)
        IN  /\ SamplesFed < MaxSamples
            /\ "bus_001" \in running
            /\ Abs(lat - sim_lat["bus_001"]) <= SIM_STEP
            /\ sample' = vehicle_data
            /\ sim_lat' = [sim_lat EXCEPT !["bus_001"] = lat]
            /\ CommitThread(simulate_bus(StoresFor(<<vehicle_data>>), vehicle_data,
                                         now, now + d),
                            "bus_001", d)

Tick ==
    /\ TicksTaken(STALE_THRESHOLD) < MaxTicks
    /\ now' = now + STALE_THRESHOLD
    /\ out' = [fn |-> "tick"]
    /\ UNCHANGED <<redis, recurring_ghosts, sample, pushed, window_start, seen,
                   fed, sim_lat, published>>
    /\ UNCHANGED <<postgres, running, vehicle_positions, inflight, ws_vars>>

Init == Fresh

Next == ParseAndPublish \/ SimulateStationary \/ SimulateNormal \/ Tick

Spec == Init /\ [][Next]_vars

---------------------------------------------------------------------------
(* SpecDeployed: the rules called directly, as the unit tests call them,   *)
(* on samples inside and outside the service area of the tests, on a known *)
(* and an unknown route, with and without a timestamp, for a vehicle with  *)
(* no history or with two recent entries at the place of the sample, while *)
(* the clock moves.                                                        *)

\* test_detect_off_route: inside the bounds, far outside, just outside
\* (latitude and longitude in 1e-4 degrees).
AreaPositions == {<<129500, 776000>>, <<130800, 802700>>, <<127999, 773999>>}

AreaRoutes == {"route_1", "route_42"}

AreaSampleTimes == {Absent, StartTime, StartTime - SIM_STALE_AGE}

AreaSpeeds == {20, 90}

AreaSamples ==
    {[MakeSample(RuleVehicle, pos[1], ts, speed)
          EXCEPT !.lon = pos[2], !.route_id = route_id] :
        pos \in AreaPositions, route_id \in AreaRoutes,
        ts \in AreaSampleTimes, speed \in AreaSpeeds}

\* Two entries pushed at the place of the sample, SIM_STALE_AGE seconds ago.
AreaHistory(vehicle_data) ==
    LET item == PyStr([lat |-> vehicle_data.lat, lon |-> vehicle_data.lon,
                       timestamp |-> StartTime - SIM_STALE_AGE])
    IN  <<item, item>>

InitDeployed ==
    /\ now = StartTime
    /\ sample \in AreaSamples
    /\ \E h \in {<<>>, AreaHistory(sample)} :
          redis = [v \in Vehicles |->
                    IF v = RuleVehicle /\ h # <<>>
                    THEN [list |-> h, expire_at |-> StartTime + HISTORY_TTL]
                    ELSE EmptyKey]
    /\ recurring_ghosts = {}
    /\ out = NoCall
    /\ pushed = [v \in Vehicles |-> <<>>]
    /\ window_start = [v \in Vehicles |-> 0]
    /\ seen = [v \in Vehicles |-> NoSeen]
    /\ fed = [v \in Vehicles |-> NoFed]
    /\ sim_lat = [v \in Vehicles |-> 0]
    /\ published = <<>>
    /\ FreshServer

CallDetectOffRoute ==
    /\ out' = [fn |-> "detect_off_route", value |-> detect_off_route(sample)]
    /\ UNCHANGED <<now, redis, recurring_ghosts, sample, pushed, window_start,
                   seen, fed, sim_lat, published>>
    /\ UNCHANGED <<postgres, running, vehicle_positions, inflight, ws_vars>>

NextDeployed ==
    CallDetectStale \/ CallDetectOffRoute \/ CallCalculateGhostScore \/ Tick

SpecDeployed == InitDeployed /\ [][NextDeployed]_vars

---------------------------------------------------------------------------
(* Claims about the rules as deployed (SpecDeployed) *)

\* The sample lies inside the service area of test_detect_off_route.
InBounds(vehicle_data) ==
    /\ vehicle_data.lat \in 128000..132000
    /\ vehicle_data.lon \in 774000..778000

Fires(b) == IF b THEN 1 ELSE 0

StaleNow == detect_stale_data(sample, now)

StationaryNow ==
    detect_stationary(redis, sample.vehicle_id, <<sample.lat, sample.lon>>, now)

FastNow == sample.speed > 80

C27_OffRouteOutsideBounds ==
    /\ out.fn = "detect_off_route" => out.value = ~InBounds(sample)
    /\ (out.fn = "calculate_ghost_score" /\ ~InBounds(sample)) =>
          /\ (~StaleNow /\ ~StationaryNow /\ ~FastNow) => out.value = 30
          /\ (StaleNow /\ StationaryNow) => out.value = 100

\* C28: detect_stale_data returns true for a sample without a timestamp.
C28_NoTimestampIsStale ==
    (out.fn = "detect_stale_data" /\ "timestamp" \notin DOMAIN sample)
        => out.value = TRUE

---------------------------------------------------------------------------
(* SpecProcess: direct calls of analyze_vehicle, as a caller of the        *)
(* detector makes them, with samples that may lack a key.  The table       *)
(* recurring_ghosts starts empty or as ghost observations made one         *)
(* look-back period ago left it (the history of that time has expired).    *)
(* The database may go down and come back between calls.                   *)

MaxCalls == 2           \* SpecProcess: analyze_vehicle calls per run

SampleKeys ==
    {"vehicle_id", "trip_id", "route_id", "lat", "lon", "timestamp", "speed", "bearing"}

\* The dict without one of its keys.
Without(d, keys) == [k \in (DOMAIN d) \ keys |-> d[k]]

\* The table after the tracker was shown the same ghost score a number of times.
RECURSIVE ObservedGhost(_, _, _, _, _)
ObservedGhost(table, v, ghost_score, times, t) ==
    IF times = 0 THEN table
    ELSE ObservedGhost(update_recurring_ghost_stats(table, v, ghost_score, TRUE, t),
                       v, ghost_score, times - 1, t)

FlaggedVehicle == "ghost_bus_001"

FlaggedTimes == {0, RECURRING_FLAGS - 1, RECURRING_FLAGS}

InitProcess ==
    /\ now = StartTime
    /\ redis = [v \in Vehicles |-> EmptyKey]
    /\ \E k \in FlaggedTimes :
          /\ recurring_ghosts =
                ObservedGhost({}, FlaggedVehicle, 70, k, StartTime - Lookback)
          /\ seen = [v \in Vehicles |->
                        IF v = FlaggedVehicle
                        THEN [n |-> k, flags |-> k, sum |-> 70 * k] ELSE NoSeen]
    /\ sample = NoSample
    /\ out = NoCall
    /\ pushed = [v \in Vehicles |-> <<>>]
    /\ window_start = [v \in Vehicles |-> 0]
    /\ fed = [v \in Vehicles |-> NoFed]
    /\ sim_lat = [v \in Vehicles |-> 0]
    /\ published = <<>>
    /\ FreshServer

\* The vehicle whose caller may leave a key out.
MalformedVehicle == "bus_001"

\* A stale sample with an impossible speed (score 60), a current sample at
\* rest (score 0 on an empty history), and the latter less one key.
ProcessSamples(v) ==
    {MakeSample(v, 0, now - SIM_STALE_AGE, 90), MakeSample(v, 0, now, 0)}
        \cup (IF v = MalformedVehicle
              THEN {Without(MakeSample(v, 0, now, 0), {k}) : k \in SampleKeys}
              ELSE {})

\* What a direct call leaves: the stores as analyze_vehicle left them, the
\* push and the observation counted when the sample got that far.
CountDirect(st, v) == [st EXCEPT !.fed[v].direct = @ + 1]

AnalyzeDirect(st, v, vehicle_data, t, t2) ==
    IF "vehicle_id" \in DOMAIN vehicle_data
    THEN CountDirect(Analyze(st, vehicle_data, t, t2), v)
    ELSE CountDirect([st EXCEPT !.raised = analyze_vehicle(st, vehicle_data, t, t2).raised], v)

DirectCalls == fed["bus_001"].direct + fed["ghost_bus_001"].direct

\* One direct call, made on behalf of vehicle v.
ProcessCallOf(v, vehicle_data, d) ==
    /\ sample' = vehicle_data
    /\ Commit(AnalyzeDirect(StoresFor(<<vehicle_data>>), v, vehicle_data, now, now + d),
              "analyze_vehicle", d)
    /\ UNCHANGED <<sim_lat, running>>

ProcessCall ==
    \E v \in Vehicles, d \in Drift :
        \E vehicle_data \in ProcessSamples(v) :
            /\ DirectCalls < MaxCalls
            /\ ProcessCallOf(v, vehicle_data, d)

Outage ==
    /\ postgres = "up"
    /\ postgres' = "down"
    /\ out' = [fn |-> "outage"]
    /\ UNCHANGED <<now, redis, recurring_ghosts, sample, pushed, window_start,
                   seen, fed, sim_lat, published, running, vehicle_positions, inflight, ws_vars>>

Recover ==
    /\ postgres = "down"
    /\ postgres' = "up"
    /\ out' = [fn |-> "recover"]
    /\ UNCHANGED <<now, redis, recurring_ghosts, sample, pushed, window_start,
                   seen, fed, sim_lat, published, running, vehicle_positions, inflight, ws_vars>>

NextProcess == ProcessCall \/ Outage \/ Recover

SpecProcess == InitProcess /\ [][NextProcess]_vars

---------------------------------------------------------------------------
(* Claims about analyze_vehicle called directly (SpecProcess) *)

\* isRecurring(v): the stored flag, false for a vehicle without a record.
IsRecurringIn(table, v) == \E row \in RowsOf(table, v) : row.is_recurring

\* The record the last analyze_vehicle call returned, if it returned one.
Returned == out.fn = "analyze_vehicle" /\ ~out.raised

Enriched == out.records[1]

RequiredKeys == {"vehicle_id", "lat", "lon"}

HasRequired(vehicle_data) == RequiredKeys \subseteq DOMAIN vehicle_data

\* C13: analyze_vehicle fails when vehicle_id, lat or lon is absent from the
\* sample and only then: a sample with the three present, whichever of
\* timestamp, speed, bearing, route_id, trip_id it lacks, is processed to an
\* enriched record.
C13_FailsOnlyWithoutRequired ==
    out.fn = "analyze_vehicle" => (out.raised <=> ~HasRequired(sample))

\* C14: when analyze_vehicle fails for a sample without vehicle_id, lat or
\* lon, every history window and the table of reputation records are as
\* they were before the call.
C14_RejectedSampleLeavesNoTrace ==
    [][(out'.fn = "analyze_vehicle" /\ out'.raised /\ ~HasRequired(sample')) =>
          (redis' = redis /\ recurring_ghosts' = recurring_ghosts)]_vars

\* The stored state with everything but vehicle v's window and record erased.
Alone(v) ==
    [redis |-> [w \in Vehicles |-> IF w = v THEN redis[w] ELSE EmptyKey],
     recurring_ghosts |-> RowsOf(recurring_ghosts, v),
     postgres |-> postgres]

\* The vehicles a call with this sample may touch.
CallVehicles(vehicle_data) ==
    IF "vehicle_id" \in DOMAIN vehicle_data THEN {vehicle_data.vehicle_id} ELSE {}

\* C31: a call made while the reputation storage is down, on a sample the
\* rules can score, returns an enriched record with the computed score, verdict
\* and rule flags and with is_recurring_ghost false; the table is untouched.
C31_StorageFailureIsSwallowed ==
    [][(/\ out'.fn = "analyze_vehicle"
        /\ postgres = "down"
        /\ HasRequired(sample')
        /\ ~ScoreRaises(redis', sample', sample'.vehicle_id, now)
        /\ ~ScoreRaises(redis', sample', sample'.vehicle_id, now'))
       => /\ ~out'.raised
          /\ Len(out'.records) = 1
          /\ out'.records[1].ghost_score =
                calculate_ghost_score(redis', sample', sample'.vehicle_id, now)
          /\ out'.records[1].is_ghost = IsGhost(out'.records[1].ghost_score)
          /\ out'.records[1].detection_rules =
                [stale |-> detect_stale_data(sample', now'),
                 stationary |-> detect_stationary(redis', sample'.vehicle_id,
                                    <<sample'.lat, sample'.lon>>, now'),
                 off_route |-> detect_off_route(sample')]
          /\ out'.records[1].is_recurring_ghost = FALSE
          /\ recurring_ghosts' = recurring_ghosts
      ]_vars

\* The storage is down, the call returned a ghost verdict for a vehicle the
\* table lists as a recurring ghost.
C31_Witness ==
    /\ out.fn = "analyze_vehicle"
    /\ postgres = "down"
    /\ ~out.raised
    /\ out.records[1].is_ghost
    /\ out.records[1].is_recurring_ghost = FALSE
    /\ \E rg \in get_recurring_ghosts(recurring_ghosts, now) :
          rg.vehicle_id = out.records[1].vehicle_id

\* C16: a call of analyze_vehicle for a sample of vehicle A leaves the history
\* window and the reputation record of every other vehicle B as they were,
\* and its outcome (the enriched record, or the failure) is what the same
\* call gives when nothing of any other vehicle is stored.
C16_OnlyOwnVehicle ==
    [][out'.fn = "analyze_vehicle" =>
          /\ \A B \in Vehicles \ CallVehicles(sample') :
                /\ redis'[B] = redis[B]
                /\ RowsOf(recurring_ghosts', B) = RowsOf(recurring_ghosts, B)
          /\ \A A \in CallVehicles(sample') :
                /\ out'.raised = analyze_vehicle(Alone(A), sample', now, now').raised
                /\ ~out'.raised =>
                      out'.records[1] = analyze_vehicle(Alone(A), sample', now, now').ret
      ]_vars

\* C16 witness: a call for one vehicle returned a record, not stationary,
\* while another vehicle had a history window at the same place and a
\* reputation record with flags.
C16_Witness ==
    /\ Returned
    /\ \E B \in Vehicles \ {Enriched.vehicle_id} :
          /\ lrange(redis, B, now) # <<>>
          /\ \E row \in RowsOf(recurring_ghosts, B) : row.total_flags >= 1
    /\ ~Enriched.detection_rules.stationary

---------------------------------------------------------------------------
(* SpecFaults: the producers when something goes wrong.  A caller hands    *)
(* analyze_vehicle a sample of the current time without lat or lon; the    *)
(* ingester then takes feeds of current samples, at most one entity per    *)
(* vehicle, and the stationary bus thread runs; the database may be down.  *)

MaxRejected == 1        \* SpecFaults: direct calls with a malformed sample

RejectedCall ==
    \E k \in {"lat", "lon"} :
        /\ DirectCalls < MaxRejected
        /\ ProcessCallOf(MalformedVehicle,
                         Without(MakeSample(MalformedVehicle, 0, now, 0), {k}), 0)

\* Feeds of current samples at rest, the vehicles in either order.
CurrentFeeds ==
    {f \in SeqUpTo({MakeSample(v, 0, now, 0) : v \in Vehicles},
                   Min(Cardinality(Vehicles), MaxSamples - SamplesFed)) :
        /\ f # <<>>
        /\ \A i, j \in 1..Len(f) : f[i].vehicle_id = f[j].vehicle_id => i = j}

ParseCurrent == \E entities \in CurrentFeeds : ParseFeed(entities, 0)

NextFaults == RejectedCall \/ ParseCurrent \/ SimulateStationary \/ Outage \/ Recover

SpecFaults == Fresh /\ [][NextFaults]_vars

---------------------------------------------------------------------------
(* Claims about the producers under faults (SpecFaults) *)

\* The entity of the last batch at position i was processed to a record.
Processed(i) ==
    \E j \in 1..Len(out.records) : out.records[j].vehicle_id = out.batch[i].vehicle_id

\* C15: when the processing of a sample of a batch raises, every later valid
\* sample of the batch, of the same or of another vehicle, is still
\* processed to an enriched record and published.
C15_BatchGoesOnAfterError ==
    out.fn = "parse_and_publish" =>
        /\ out.sent = Len(out.records)
        /\ \A i \in 1..Len(out.batch) :
              (HasRequired(out.batch[i]) /\ \E k \in 1..(i - 1) : ~Processed(k))
                  => Processed(i)

RecordKeys ==
    {"vehicle_id", "route_id", "trip_id", "lat", "lon", "speed", "bearing",
     "timestamp", "ghost_score", "is_ghost", "is_recurring_ghost",
     "detection_timestamp"}

C17_SaveFailureIsSwallowed ==
    (out.fn \in {"parse_and_publish", "simulate_bus"} /\ out.save_errors > 0) =>
        /\ out.fn = "parse_and_publish" => out.sent = Len(out.records)
        /\ out.fn = "simulate_bus" =>
                (out.sent = 1 /\ out.batch[1].vehicle_id \in running)

---------------------------------------------------------------------------
(* SpecBroadcast: the websocket endpoint of main.py.  Each client has its  *)
(* own ws_endpoint coroutine with its own subscription, and every          *)
(* coroutine sends each message it gets to every websocket of the set      *)
(* connections.  Coroutines interleave at their awaits; the producer is    *)
(* another process and publishes at any moment.                            *)

pipeline_vars == <<now, redis, recurring_ghosts, sample, out, pushed, window_start,
                   seen, fed, sim_lat, published, postgres, running,
                   vehicle_positions, inflight>>

\* main.py:213-214: accept the websocket and add it to connections.
Connect(ws) ==
    /\ socket[ws] = "none"
    /\ socket' = [socket EXCEPT ![ws] = "open"]
    /\ connections' = connections \cup {ws}
    /\ handler' = [handler EXCEPT ![ws].pc = "accepted"]
    /\ UNCHANGED <<pipeline_vars, pubsub, received, audience>>

\* main.py:217-218: the coroutine's own subscription to vehicles:updates.
Subscribe(ws) ==
    /\ handler[ws].pc = "accepted"
    /\ pubsub' = [pubsub EXCEPT ![ws].subscribed = TRUE]
    /\ handler' = [handler EXCEPT ![ws].pc = "idle"]
    /\ UNCHANGED <<pipeline_vars, connections, socket, received, audience>>

\* main.py:249: a published record is a JSON object, not a list, and is
\* forwarded as the raw message.
forwarded(raw_message) == raw_message

\* main.py:221-258: take the next message and the list of connections as it
\* is now; the order of the list is the order of a Python set, any order.
GetMessage(ws) ==
    /\ handler[ws].pc = "idle"
    /\ pubsub[ws].inbox # <<>>
    /\ pubsub' = [pubsub EXCEPT ![ws].inbox = Tail(@)]
    /\ handler' = [handler EXCEPT ![ws] =
                      [pc |-> IF connections = {} THEN "idle" ELSE "sending",
                       data |-> forwarded(Head(pubsub[ws].inbox)),
                       todo |-> connections, conn |-> "none"]]
    /\ UNCHANGED <<pipeline_vars, connections, socket, received, audience>>

\* The coroutine after the send to conn is over.
AfterSend(h, conn) ==
    [h EXCEPT !.pc = IF h.todo \ {conn} = {} THEN "idle" ELSE "sending",
              !.todo = @ \ {conn}, !.conn = "none"]

\* main.py:260: await conn.send_text(data) completes.
SendText(ws, conn) ==
    /\ handler[ws].pc = "sending"
    /\ conn \in handler[ws].todo
    /\ socket[conn] = "open"
    /\ received' = [received EXCEPT ![conn] = Append(@, handler[ws].data)]
    /\ handler' = [handler EXCEPT ![ws] = AfterSend(@, conn)]
    /\ UNCHANGED <<pipeline_vars, connections, socket, pubsub, audience>>

\* main.py:260: await conn.send_text(data) never completes: there is no
\* timeout and no buffer bound, the coroutine stays in the await.
SendBlocks(ws, conn) ==
    /\ handler[ws].pc = "sending"
    /\ conn \in handler[ws].todo
    /\ socket[conn] = "stalled"
    /\ handler' = [handler EXCEPT ![ws].pc = "blocked", ![ws].conn = conn]
    /\ UNCHANGED <<pipeline_vars, connections, socket, pubsub, received, audience>>

\* main.py:265-268: an exception leaves the loop; the finally clause removes
\* the coroutine's own websocket (a KeyError there changes nothing more), the
\* subscription goes with the coroutine and the server closes the websocket.
EndHandler(ws) ==
    /\ connections' = connections \ {ws}
    /\ handler' = [handler EXCEPT ![ws] = [NoHandler EXCEPT !.pc = "ended"]]
    /\ pubsub' = [pubsub EXCEPT ![ws] = NoPubSub]
    /\ socket' = [socket EXCEPT ![ws] = IF @ = "closed" THEN @ ELSE "dropped"]

\* main.py:261-263: send_text raises; connections.remove(conn) removes conn,
\* or raises KeyError when another coroutine removed it already.
SendFails(ws, conn) ==
    /\ \/ handler[ws].pc = "sending" /\ conn \in handler[ws].todo
       \/ handler[ws].pc = "blocked" /\ conn = handler[ws].conn
    /\ socket[conn] \in {"closed", "dropped"}
    /\ IF conn \in connections
       THEN /\ connections' = connections \ {conn}
            /\ handler' = [handler EXCEPT ![ws] = AfterSend(@, conn)]
            /\ UNCHANGED <<socket, pubsub>>
       ELSE EndHandler(ws)
    /\ UNCHANGED <<pipeline_vars, received, audience>>

\* The client goes away.
Close(ws) ==
    /\ socket[ws] = "open"
    /\ socket' = [socket EXCEPT ![ws] = "closed"]
    /\ UNCHANGED <<pipeline_vars, connections, handler, pubsub, received, audience>>

\* The client stops reading: from now on no send to it completes.
Stall(ws) ==
    /\ socket[ws] = "open"
    /\ socket' = [socket EXCEPT ![ws] = "stalled"]
    /\ UNCHANGED <<pipeline_vars, connections, handler, pubsub, received, audience>>

\* The producer publishes one more record.
Produce ==
    /\ SamplesFed < MaxSamples
    /\ ParseFeed(<<MakeSample("bus_001", 0, now, 0)>>, 0)

NextBroadcast ==
    \/ Produce
    \/ \E ws \in Clients : Connect(ws)
    \/ \E ws \in Clients : Subscribe(ws)
    \/ \E ws \in Clients : GetMessage(ws)
    \/ \E ws, conn \in Clients : SendText(ws, conn)
    \/ \E ws, conn \in Clients : SendBlocks(ws, conn)
    \/ \E ws, conn \in Clients : SendFails(ws, conn)
    \/ \E ws \in Clients : Close(ws)
    \/ \E ws \in Clients : Stall(ws)

SpecBroadcast == Fresh /\ [][NextBroadcast]_vars

---------------------------------------------------------------------------
(* Claims about the broadcast (SpecBroadcast) *)

\* The client of ws is connected and reads what it is sent.
Healthy(ws) == socket[ws] \in {"open", "dropped"}

\* The coroutine of ws can take no step: nothing to deliver, or ended, or
\* in a send that never completes.
Resting(ws) ==
    \/ handler[ws].pc \in {"none", "ended"}
    \/ handler[ws].pc = "idle" /\ pubsub[ws].inbox = <<>>
    \/ handler[ws].pc = "blocked" /\ socket[handler[ws].conn] = "stalled"

Settled == \A ws \in Clients : Resting(ws)

\* The client of ws was sent publication k.
Got(ws, k) == \E i \in 1..Len(received[ws]) : received[ws][i].seq = k

\* C18: a failed send unregisters the failed sink only: a subscriber whose
\* client is connected and reading stays in connections with its delivery
\* loop running, also when two loops meet the same failed sink.
C18_OnlyTheFailedSinkGoes ==
    \A ws \in Clients :
        Healthy(ws) => (ws \in connections /\ handler[ws].pc # "ended")

\* C35: no removal from connections raises, whichever coroutine removes a
\* subscriber first; a delivery loop leaves its while loop only through the
\* KeyError of connections.remove, so none ever ends.
C35_UnregisterNeverRaises ==
    \A ws \in Clients : handler[ws].pc # "ended"

\* C19: once every delivery loop has come to rest, a subscriber that was in
\* connections when a record was published, and whose client is connected
\* and reading, has received the record; a subscriber that had been removed
\* from connections before the publication has not.
C19_RegisteredReceive ==
    Settled =>
        \A k \in 1..Len(audience) : \A ws \in Clients :
            /\ (ws \in audience[k].registered /\ Healthy(ws)) => Got(ws, k)
            /\ (ws \notin audience[k].registered /\ handler[ws].pc = "ended")
                    => ~Got(ws, k)

\* C20: a subscriber whose send never completes blocks nobody and is
\* disconnected: once every delivery loop has come to rest, no loop is
\* left waiting in a send to it, and every record published while it was
\* registered has reached the other subscribers registered then.
C20_StalledNeverBlocks ==
    Settled =>
        /\ \A ws \in Clients : handler[ws].pc # "blocked"
        /\ \A k \in 1..Len(audience) : \A ws \in Clients :
              (/\ ws \in audience[k].registered \cap audience[k].subscribed
               /\ socket[ws] = "open"
               /\ \E conn \in audience[k].registered : socket[conn] = "stalled")
                    => Got(ws, k)

\* How many times the client of ws was sent publication k.
Deliveries(ws, k) ==
    Cardinality({i \in 1..Len(received[ws]) : received[ws][i].seq = k})

\* C21: delivery is at-most-once: whatever the number of connected
\* subscribers, each published record is delivered to each subscriber at
\* most one time.
C21_AtMostOnce ==
    \A ws \in Clients : \A k \in 1..Len(published) : Deliveries(ws, k) <= 1

---------------------------------------------------------------------------
(* SpecOrder: the producers with feeds that may hold two entities of the   *)
(* same vehicle, at different places, and a caller whose sample is         *)
(* rejected, so that a run can end before the end of its feed.             *)

\* Feeds of current samples at rest at one of two places, up to two entities,
\* of the same vehicle or not.
OrderedFeeds ==
    {f \in SeqUpTo({MakeSample(v, lat, now, 0) : v \in Vehicles, lat \in FeedLats},
                   Min(2, MaxSamples - SamplesFed)) : f # <<>>}

ParseOrdered == \E entities \in OrderedFeeds : ParseFeed(entities, 0)

NextOrder == ParseOrdered \/ SimulateStationary \/ SimulateNormal \/ RejectedCall

SpecOrder == Fresh /\ [][NextOrder]_vars

---------------------------------------------------------------------------
(* SpecBoundary: feeds whose samples are exactly as old as a threshold.    *)
(* analyze_vehicle reads the clock for the score (line 185) and again for  *)
(* each rule flag of the record (lines 197-198).                           *)

BoundaryAges == {0, STALE_THRESHOLD, STATIONARY_THRESHOLD}

BoundaryFeeds ==
    {<<MakeSample(v, 0, now - age, 0)>> : v \in Vehicles, age \in BoundaryAges}

ParseBoundary ==
    \E entities \in BoundaryFeeds, d \in Drift :
        /\ SamplesFed < MaxSamples
        /\ ParseFeed(entities, d)

NextBoundary == ParseBoundary \/ SimulateStationary \/ Tick

SpecBoundary == Fresh /\ [][NextBoundary]_vars

---------------------------------------------------------------------------
(* Claims about the order of publication (SpecOrder) *)

EnrichmentKeys ==
    {"ghost_score", "is_ghost", "detection_timestamp", "detection_rules",
     "is_recurring_ghost"}

\* The source sample of an enriched record.
Source(e) == Without(e, EnrichmentKeys)

OfVehicle(s, v) == SelectSeq(s, LAMBDA x : x.vehicle_id = v)

IsPrefix(p, s) == Len(p) <= Len(s) /\ SubSeq(s, 1, Len(p)) = p

\* The source samples of the records of v that come after the first n in s.
SourcesAfter(s, n, v) ==
    LET new == OfVehicle(SubSeq(s, n + 1, Len(s)), v)
    IN  [i \in 1..Len(new) |-> Source(new[i])]

---------------------------------------------------------------------------
(* SpecEndToEnd: one vehicle fed through parse_and_publish, one entity per *)
(* feed.  An entity is the stationary stale sample (the same place, speed  *)
(* 0, a timestamp SIM_STALE_AGE before the evaluation) or a current sample *)
(* of the moving bus.  Between two feeds the clock advances by the longest *)
(* gap that keeps the previous stale sample in the stationary window, or   *)
(* by more than the look-back period.                                      *)

MaxFeeds == 7           \* SpecEndToEnd: feeds per run

EndToEndVehicle == "ghost_bus_001"

\* The gap after which a sample stamped SIM_STALE_AGE back still qualifies.
StationaryGap == STATIONARY_THRESHOLD - SIM_STALE_AGE

FeedOne(vehicle_data) ==
    /\ fed[EndToEndVehicle].n < MaxFeeds
    /\ out.fn # "parse_and_publish"
    /\ ParseFeed(<<vehicle_data>>, 0)

FeedStationary == FeedOne(MakeSample(EndToEndVehicle, 0, now - SIM_STALE_AGE, 0))

FeedMoving == FeedOne(MakeSample(EndToEndVehicle, 8, now, 30))

Wait ==
    /\ out.fn = "parse_and_publish"
    /\ \E gap \in {StationaryGap, Lookback + 1} : now' = now + gap
    /\ out' = [fn |-> "wait"]
    /\ UNCHANGED <<redis, recurring_ghosts, sample, pushed, window_start, seen,
                   fed, sim_lat, published>>
    /\ UNCHANGED <<postgres, running, vehicle_positions, inflight, ws_vars>>

NextEndToEnd == FeedStationary \/ FeedMoving \/ Wait

SpecEndToEnd == Fresh /\ [][NextEndToEnd]_vars

---------------------------------------------------------------------------
(* Claims about the end-to-end scenario (SpecEndToEnd) *)

\* The enriched record is of a stationary stale sample: the place of the
\* first sample, speed 0, a timestamp 400 s before its evaluation.
StationaryStale(e) ==
    /\ e.lat = 0 /\ e.lon = 0
    /\ e.speed = 0
    /\ e.detection_timestamp - e.timestamp = 400

\* The first k published records are stationary stale samples, each
\* evaluated at most 200 s after the one before.
FirstAreClose(k) ==
    /\ k <= Len(published)
    /\ \A i \in 1..k : StationaryStale(published[i])
    /\ \A i \in 2..k : published[i].detection_timestamp
                            - published[i - 1].detection_timestamp <= 200

\* The evaluation times of the ghost verdicts among the first j records.
GhostTimes(j) ==
    {published[i].detection_timestamp : i \in {n \in 1..j : published[n].is_ghost}}

---------------------------------------------------------------------------
(* Claims about the pipeline (Spec) *)

\* C3: every enriched record analyze_vehicle produces has an integer
\* ghost_score in 0..100 and is_ghost exactly when ghost_score > 50: a score
\* of 40 (stale only) is no ghost, a score of 70 (stale and stationary) is.
C3_ScoreRangeAndVerdict ==
    out.fn \in {"parse_and_publish", "simulate_bus"} =>
        \A i \in 1..Len(out.records) :
            LET e == out.records[i]
            IN  /\ e.ghost_score \in 0..100
                /\ e.is_ghost <=> e.ghost_score > 50
                /\ e.ghost_score = 40 => ~e.is_ghost
                /\ e.ghost_score = 70 => e.is_ghost

\* C3 witness: one producer run returned a stale-only record of score 40, no
\* ghost, and a stale and stationary record of score 70, a ghost.
C3_Witness ==
    /\ out.fn \in {"parse_and_publish", "simulate_bus"}
    /\ \E i, j \in 1..Len(out.records) :
          /\ out.records[i].ghost_score = 40 /\ ~out.records[i].is_ghost
          /\ out.records[i].detection_rules.stale
          /\ ~out.records[i].detection_rules.stationary
          /\ out.records[j].ghost_score = 70 /\ out.records[j].is_ghost
          /\ out.records[j].detection_rules.stale
          /\ out.records[j].detection_rules.stationary

\* The score the flags of a record add up to.
ScoreOfFlags(e) ==
    Min(SCORE_CAP,
        (IF e.detection_rules.stale THEN WEIGHT_STALE ELSE 0)
        + (IF e.detection_rules.stationary THEN WEIGHT_STATIONARY ELSE 0)
        + (IF e.detection_rules.off_route THEN WEIGHT_OFF_ROUTE ELSE 0)
        + (IF Get(e, "speed", 0) > MAX_SPEED \/ Get(e, "speed", 0) < 0
           THEN WEIGHT_SPEED ELSE 0))

\* C32: in every record a producer got back, ghost_score is the capped
\* weighted sum of the rule flags the same record reports and of its speed
\* anomaly, although the clock may move between the computation of the score
\* and the assembly of the record.
C32_ScoreMatchesFlags ==
    out.fn \in {"parse_and_publish", "simulate_bus"} =>
        \A i \in 1..Len(out.records) :
            out.records[i].ghost_score = ScoreOfFlags(out.records[i])

TotalFlags(v) ==
    IF RowsOf(recurring_ghosts, v) = {} THEN 0
    ELSE (CHOOSE row \in RowsOf(recurring_ghosts, v) : TRUE).total_flags

\* C10: for every vehicle total_flags is the number of its input samples
\* whose verdict was is_ghost, each input sample being appended to the
\* history once and observed by the reputation tracker once, whichever
\* producer fed it.
C10_OncePerSample ==
    \A v \in Vehicles :
        /\ TotalFlags(v) = fed[v].ghosts
        /\ Len(pushed[v]) = fed[v].n
        /\ seen[v].n = fed[v].n

---------------------------------------------------------------------------
(* Claims about the history window (SpecHistory) *)

Window(v) == lrange(redis, v, now)

\* The last k items of a sequence, the most recent first.
LastFirst(s, k) == Reverse(SubSeq(s, Len(s) - k + 1, Len(s)))

\* C1 as stated: after any sequence of record calls the window holds at most
\* 50 entries, exactly the most recent min(n, 50) pushed samples, most recent
\* first, n being the number of record calls.
C1_WindowIsLastPushes ==
    out.fn = "update_vehicle_history" =>
        \A v \in Vehicles :
            /\ Len(Window(v)) <= 50
            /\ Window(v) = LastFirst(pushed[v], Min(Len(pushed[v]), 50))

\* C1 amended: after a record call the window holds at most 50 entries,
\* exactly the most recent min(m, 50) pushed samples, most recent first in
\* push order whatever their timestamps, m being the number of record calls
\* since the window was last discarded by its 24 h idle expiry.
C1_WindowIsLastPushesSinceExpiry ==
    out.fn = "update_vehicle_history" =>
        \A v \in Vehicles :
            /\ Len(Window(v)) <= 50
            /\ Window(v) = LastFirst(pushed[v],
                                     Min(Len(pushed[v]) - window_start[v], 50))

\* C1 witness: the window is full, more than 50 samples were pushed, and the
\* newest entry is a backdated one, older by timestamp than all it kept out.
C1_Witness ==
    LET w == Window(HistoryVehicle)
    IN  /\ out.fn = "update_vehicle_history"
        /\ Len(w) = 50
        /\ Len(pushed[HistoryVehicle]) > 50
        /\ w[1] = PyStr(sample)
        /\ \A i \in 2..50 : PyEval(w[1]).timestamp < PyEval(w[i]).timestamp
        /\ PyEval(w[50]).bearing = Len(pushed[HistoryVehicle]) - 49

---------------------------------------------------------------------------
(* SpecRep: the reputation tracker alone.  Each observe is one call of     *)
(* update_recurring_ghost_stats with a score the detector can produce and  *)
(* the verdict analyze_vehicle derives from it; reads are calls of         *)
(* get_recurring_ghosts; the clock moves by a second or by the look-back   *)
(* period.                                                                 *)

ObserveScores == {40, 70, 90}

\* The ghost count of what the tracker was shown.
LogObserve(v, ghost_score, is_ghost, times) ==
    seen' = [seen EXCEPT ![v] =
        [n |-> @.n + times,
         flags |-> @.flags + (IF is_ghost THEN times ELSE 0),
         sum |-> @.sum + (IF is_ghost THEN times * ghost_score ELSE 0)]]

ObservationsMade == seen["bus_001"].n + seen["ghost_bus_001"].n

Observe(v, ghost_score, is_ghost) ==
    /\ ObservationsMade < MaxObservations
    /\ recurring_ghosts' =
            update_recurring_ghost_stats(recurring_ghosts, v, ghost_score, is_ghost, now)
    /\ LogObserve(v, ghost_score, is_ghost, 1)
    /\ out' = [fn |-> "update_recurring_ghost_stats", vehicle_id |-> v,
               ghost_score |-> ghost_score, is_ghost |-> is_ghost]
    /\ UNCHANGED <<now, redis, sample, pushed, window_start, fed, sim_lat, published>>
    /\ UNCHANGED <<postgres, running, vehicle_positions, inflight, ws_vars>>

ObserveNext ==
    \E v \in Vehicles, ghost_score \in ObserveScores :
        Observe(v, ghost_score, IsGhost(ghost_score))

ListRecurring ==
    /\ out' = [fn |-> "get_recurring_ghosts",
               value |-> get_recurring_ghosts(recurring_ghosts, now)]
    /\ UNCHANGED <<now, redis, recurring_ghosts, sample, pushed, window_start,
                   seen, fed, sim_lat, published>>
    /\ UNCHANGED <<postgres, running, vehicle_positions, inflight, ws_vars>>

TickRep ==
    /\ TicksTaken(Lookback) < MaxTicks
    /\ \E d \in {1, Lookback} : now' = now + d
    /\ out' = [fn |-> "tick"]
    /\ UNCHANGED <<redis, recurring_ghosts, sample, pushed, window_start, seen,
                   fed, sim_lat, published>>
    /\ UNCHANGED <<postgres, running, vehicle_positions, inflight, ws_vars>>

NextRep == ObserveNext \/ ListRecurring \/ TickRep

SpecRep == Fresh /\ [][NextRep]_vars

---------------------------------------------------------------------------
(* Claims about the reputation tracker (SpecRep) *)

C7_RecurringIsMonotonic ==
    [][\A v \in Vehicles :
          IsRecurringIn(recurring_ghosts, v) => IsRecurringIn(recurring_ghosts', v)]_vars

\* C7 witness: a recurring vehicle whose last flag is older than the look-back
\* period, left out of the list a read returned, its flag still set.
C7_Witness ==
    /\ out.fn = "get_recurring_ghosts"
    /\ \E v \in Vehicles :
          /\ IsRecurringIn(recurring_ghosts, v)
          /\ \A rg \in out.value : rg.vehicle_id # v

\* C8: with at least one ghost flag, avg_ghost_score is the sum of the scores
\* of the ghost-flagged observations divided by total_flags; the scores of
\* non-ghost observations do not enter it.
C8_AverageOfFlaggedScores ==
    \A row \in recurring_ghosts :
        seen[row.vehicle_id].flags >= 1 =>
            /\ row.total_flags = seen[row.vehicle_id].flags
            /\ row.avg_ghost_score[1] * row.total_flags
                    = seen[row.vehicle_id].sum * row.avg_ghost_score[2]

\* C8 witness: three flags with a mean that is no whole number, and a
\* non-ghost observation among the calls.
C8_Witness ==
    \E row \in recurring_ghosts :
        /\ row.total_flags = 3
        /\ row.avg_ghost_score[2] = 3
        /\ seen[row.vehicle_id].n > seen[row.vehicle_id].flags

\* C9: an observe with isGhost = false leaves the record of the vehicle as it
\* was; if there was none it creates one with total_flags = 0, null flag
\* times, average 0 and is_recurring = false; other records do not change.
C9_NonGhostLeavesRecord ==
    [][(out'.fn = "update_recurring_ghost_stats" /\ ~out'.is_ghost) =>
          /\ \A u \in Vehicles \ {out'.vehicle_id} :
                RowsOf(recurring_ghosts', u) = RowsOf(recurring_ghosts, u)
          /\ RowsOf(recurring_ghosts, out'.vehicle_id) # {} =>
                RowsOf(recurring_ghosts', out'.vehicle_id)
                    = RowsOf(recurring_ghosts, out'.vehicle_id)
          /\ RowsOf(recurring_ghosts, out'.vehicle_id) = {} =>
                RowsOf(recurring_ghosts', out'.vehicle_id)
                    = {[vehicle_id |-> out'.vehicle_id, total_flags |-> 0,
                        first_flag_time |-> None, last_flag_time |-> None,
                        avg_ghost_score |-> <<0, 1>>, is_recurring |-> FALSE]}
      ]_vars

\* C9 witness: a non-ghost observation of a vehicle flagged earlier, at a
\* later time than its last flag.
C9_Witness ==
    /\ out.fn = "update_recurring_ghost_stats"
    /\ ~out.is_ghost
    /\ \E row \in RowsOf(recurring_ghosts, out.vehicle_id) :
          row.total_flags >= 1 /\ row.last_flag_time < now

---------------------------------------------------------------------------
(* SpecTorn: two worker processes use the history of one vehicle at the    *)
(* same time.  update_vehicle_history sends LPUSH, LTRIM and EXPIRE as     *)
(* three commands, get_vehicle_history sends one LRANGE; Redis runs each   *)
(* command atomically and the commands of the two workers interleave.      *)

TornSizes == {0, HISTORY_LAST_INDEX, HISTORY_LAST_INDEX + 1}

NumberedSample(v, n, t) == [MakeSample(v, 0, t, 0) EXCEPT !.bearing = n]

\* Redis after n record calls for the vehicle, n at most 50, all at the
\* start time: the newest item first, the expiry set by the last call.
FilledWindow(n) ==
    [v \in Vehicles |->
        IF v = HistoryVehicle /\ n > 0
        THEN [list |-> [i \in 1..n |->
                          PyStr(NumberedSample(HistoryVehicle, n + 1 - i, StartTime))],
              expire_at |-> StartTime + HISTORY_TTL]
        ELSE EmptyKey]

InitTorn ==
    /\ now = StartTime
    /\ \E n \in TornSizes :
          /\ redis = FilledWindow(n)
          /\ pushed = [v \in Vehicles |->
                          IF v = HistoryVehicle
                          THEN [i \in 1..n |->
                                  PyStr(NumberedSample(HistoryVehicle, i, StartTime))]
                          ELSE <<>>]
    /\ recurring_ghosts = {}
    /\ sample = NoSample
    /\ out = NoCall
    /\ window_start = [v \in Vehicles |-> 0]
    /\ seen = [v \in Vehicles |-> NoSeen]
    /\ fed = [v \in Vehicles |-> NoFed]
    /\ sim_lat = [v \in Vehicles |-> 0]
    /\ published = <<>>
    /\ FreshServer

\* detector.py:44: the first command of update_vehicle_history.
RecordPush(p) ==
    LET v == HistoryVehicle
        vehicle_data == NumberedSample(v, Len(pushed[v]) + 1, now)
    IN  /\ inflight[p] = NoOp
        /\ DirectCalls < MaxCalls
        /\ redis' = lpush(redis, v, PyStr(vehicle_data), now)
        /\ LogPush(v, PyStr(vehicle_data))
        /\ fed' = [fed EXCEPT ![v].direct = @ + 1]
        /\ inflight' = [inflight EXCEPT ![p] =
                            [op |-> "update_vehicle_history", pc |-> "ltrim",
                             vehicle_id |-> v]]
        /\ sample' = vehicle_data
        /\ UNCHANGED <<now, recurring_ghosts, out, seen, sim_lat, published,
                       postgres, running, vehicle_positions, ws_vars>>

\* detector.py:45: the second command.
RecordTrim(p) ==
    /\ inflight[p].op = "update_vehicle_history" /\ inflight[p].pc = "ltrim"
    /\ redis' = ltrim(redis, inflight[p].vehicle_id, HISTORY_LAST_INDEX, now)
    /\ inflight' = [inflight EXCEPT ![p].pc = "expire"]
    /\ UNCHANGED <<now, recurring_ghosts, sample, out, pushed, window_start, seen,
                   fed, sim_lat, published, postgres, running, vehicle_positions,
                   ws_vars>>

\* detector.py:46: the third command; update_vehicle_history returns.
RecordExpire(p) ==
    /\ inflight[p].op = "update_vehicle_history" /\ inflight[p].pc = "expire"
    /\ redis' = expire(redis, inflight[p].vehicle_id, HISTORY_TTL, now)
    /\ inflight' = [inflight EXCEPT ![p] = NoOp]
    /\ UNCHANGED <<now, recurring_ghosts, sample, out, pushed, window_start, seen,
                   fed, sim_lat, published, postgres, running, vehicle_positions,
                   ws_vars>>

\* detector.py:27-38: get_vehicle_history, as detect_stationary calls it.
ReadHistory(p) ==
    /\ inflight[p] = NoOp
    /\ out' = [fn |-> "get_vehicle_history", worker |-> p,
               value |-> get_vehicle_history(redis, HistoryVehicle, now)]
    /\ UNCHANGED <<now, redis, recurring_ghosts, sample, pushed, window_start, seen,
                   fed, sim_lat, published, postgres, running, vehicle_positions,
                   inflight, ws_vars>>

NextTorn ==
    \/ \E p \in Workers : RecordPush(p)
    \/ \E p \in Workers : RecordTrim(p)
    \/ \E p \in Workers : RecordExpire(p)
    \/ \E p \in Workers : ReadHistory(p)

SpecTorn == InitTorn /\ [][NextTorn]_vars

\* C24: a reader of the history of a vehicle, running at the same time as
\* record calls for that vehicle, never gets a torn window: never more than
\* 50 entries, never a window with the push applied and the eviction not.
C24_NoTornWindow ==
    out.fn = "get_vehicle_history" => Len(out.value) <= HISTORY_LAST_INDEX + 1

---------------------------------------------------------------------------
(* SpecRace: two worker processes update the reputation of one vehicle at  *)
(* the same time.  update_recurring_ghost_stats reads the row in its own   *)
(* session, changes the object in Python and writes at commit; the reads   *)
(* and commits of the two sessions interleave.                             *)

\* storage.py:103-117: the row as the session read it, or a new object.
QueryRow(table, v) ==
    IF RowsOf(table, v) = {} THEN NewRecurringGhost(v)
    ELSE CHOOSE row \in RowsOf(table, v) : TRUE

\* storage.py:103-136: the session reads the row and changes its object.
RaceQuery(p, v, ghost_score) ==
    /\ inflight[p] = NoOp
    /\ DirectCalls < MaxCalls
    /\ inflight' = [inflight EXCEPT ![p] =
          [op |-> "update_recurring_ghost_stats", vehicle_id |-> v,
           created |-> RowsOf(recurring_ghosts, v) = {},
           read |-> QueryRow(recurring_ghosts, v),
           new |-> IF IsGhost(ghost_score)
                   THEN FlagRow(QueryRow(recurring_ghosts, v), ghost_score, now)
                   ELSE QueryRow(recurring_ghosts, v)]]
    /\ LogObserve(v, ghost_score, IsGhost(ghost_score), 1)
    /\ fed' = [fed EXCEPT ![v].direct = @ + 1]
    /\ UNCHANGED <<now, redis, recurring_ghosts, sample, out, pushed, window_start,
                   sim_lat, published, postgres, running, vehicle_positions, ws_vars>>

\* The UPDATE of a flush: the columns the session changed are written over
\* the row as it is now, the others are left.
WrittenOver(row, call) ==
    [c \in DOMAIN row |-> IF call.new[c] # call.read[c] THEN call.new[c] ELSE row[c]]

\* storage.py:138: session.commit().  A new object is inserted, and the
\* unique index on vehicle_id (storage.py:33) refuses a second row; a row
\* that was read is updated.
RaceCommit(p) ==
    LET call == inflight[p]
        rows == RowsOf(recurring_ghosts, call.vehicle_id)
    IN  /\ call.op = "update_recurring_ghost_stats"
        /\ inflight' = [inflight EXCEPT ![p] = NoOp]
        /\ IF call.created
           THEN IF rows = {}
                THEN /\ recurring_ghosts' = recurring_ghosts \cup {call.new}
                     /\ out' = [fn |-> "update_recurring_ghost_stats", raised |-> FALSE]
                ELSE /\ recurring_ghosts' = recurring_ghosts
                     /\ out' = [fn |-> "update_recurring_ghost_stats", raised |-> TRUE]
           ELSE /\ recurring_ghosts' =
                       (recurring_ghosts \ rows)
                           \cup {WrittenOver(row, call) : row \in rows}
                /\ out' = [fn |-> "update_recurring_ghost_stats", raised |-> FALSE]
        /\ UNCHANGED <<now, redis, sample, pushed, window_start, seen, fed, sim_lat,
                       published, postgres, running, vehicle_positions, ws_vars>>

NextRace ==
    \/ \E p \in Workers, v \in Vehicles, ghost_score \in ObserveScores :
          RaceQuery(p, v, ghost_score)
    \/ \E p \in Workers : RaceCommit(p)

SpecRace == InitProcess /\ [][NextRace]_vars

\* C25: the update of a reputation record is atomic per vehicle: when the
\* observe calls of two workers for one vehicle overlap, every ghost verdict
\* is counted in total_flags and in avg_ghost_score, the vehicle has exactly
\* one record, and no call fails on the creation of the record.
C25_NoLostUpdate ==
    (\A p \in Workers : inflight[p] = NoOp) =>
        /\ out.fn = "update_recurring_ghost_stats" => ~out.raised
        /\ \A v \in Vehicles :
              /\ seen[v].n >= 1 => Cardinality(RowsOf(recurring_ghosts, v)) = 1
              /\ \A row \in RowsOf(recurring_ghosts, v) :
                    /\ row.total_flags = seen[v].flags
                    /\ row.avg_ghost_score[1] * row.total_flags
                            = seen[v].sum * row.avg_ghost_score[2]

---------------------------------------------------------------------------
(* SpecUnreadable: analyze_vehicle over a history that cannot be used.     *)
(* The key of one vehicle starts with up to two entries written earlier:   *)
(* the text of a usable sample, a text eval cannot read, or the text of a  *)
(* dict with no 'lat'.  A call may also find Redis unreachable: redis-py   *)
(* raises ConnectionError from the command it was sending.                 *)

StoredEntries ==
    {PyStr(MakeSample(RuleVehicle, 0, StartTime, 0)),
     PyStr(MakeSample(RuleVehicle, NaN, StartTime, 0)),
     PyStr(Without(MakeSample(RuleVehicle, 0, StartTime, 0), {"lat"}))}

InitUnreadable ==
    /\ now = StartTime
    /\ \E h \in SeqUpTo(StoredEntries, 2) :
          /\ redis = [v \in Vehicles |->
                        IF v = RuleVehicle /\ h # <<>>
                        THEN [list |-> h, expire_at |-> StartTime + HISTORY_TTL]
                        ELSE EmptyKey]
          /\ pushed = [v \in Vehicles |-> IF v = RuleVehicle THEN Reverse(h) ELSE <<>>]
    /\ recurring_ghosts = {}
    /\ sample = NoSample
    /\ out = NoCall
    /\ window_start = [v \in Vehicles |-> 0]
    /\ seen = [v \in Vehicles |-> NoSeen]
    /\ fed = [v \in Vehicles |-> NoFed]
    /\ sim_lat = [v \in Vehicles |-> 0]
    /\ published = <<>>
    /\ FreshServer

\* analyze_vehicle with Redis answering.
ReadableCall ==
    \E lat \in FeedLats, d \in Drift :
        /\ DirectCalls < MaxCalls
        /\ ProcessCallOf(RuleVehicle, MakeSample(RuleVehicle, lat, now, 0), d)

\* analyze_vehicle with Redis unreachable from the given command on: lpush
\* (detector.py:44, nothing is stored) or lrange (detector.py:30, the sample
\* is stored).  Neither call is inside a try: the error leaves analyze_vehicle.
UnreachableCall ==
    \E lat \in FeedLats, at \in {"lpush", "lrange"} :
        LET v == RuleVehicle
            vehicle_data == MakeSample(v, lat, now, 0)
        IN  /\ DirectCalls < MaxCalls
            /\ IF at = "lrange"
               THEN /\ redis' = update_vehicle_history(redis, v, vehicle_data, now)
                    /\ LogPush(v, PyStr(vehicle_data))
               ELSE UNCHANGED <<redis, pushed, window_start>>
            /\ fed' = [fed EXCEPT ![v].direct = @ + 1]
            /\ sample' = vehicle_data
            /\ out' = [fn |-> "analyze_vehicle", records |-> <<>>, raised |-> TRUE,
                       save_errors |-> 0, batch |-> <<vehicle_data>>, sent |-> 0,
                       unreachable |-> at]
            /\ UNCHANGED <<now, recurring_ghosts, seen, sim_lat, published,
                           postgres, running, vehicle_positions, inflight, ws_vars>>

NextUnreadable == ReadableCall \/ UnreachableCall \/ Tick

SpecUnreadable == InitUnreadable /\ [][NextUnreadable]_vars

---------------------------------------------------------------------------
(* Claims about an unreadable history (SpecUnreadable) *)

\* An entry the stationary rule cannot use: eval raises on it, or it is a
\* dict without a position.
Unusable(item) ==
    EvalRaises(item) \/ ~({"lat", "lon"} \subseteq DOMAIN item.text)

\* The entries the call found under the key, the sample it pushed aside.
FoundBy(v) == Tail(lrange(redis, v, now))

\* The call could not read the history: Redis was unreachable, or every
\* entry it found is unusable.
HistoryUnavailable ==
    /\ out.fn = "analyze_vehicle"
    /\ HasRequired(sample)
    /\ \/ "unreachable" \in DOMAIN out
       \/ /\ lrange(redis, sample.vehicle_id, now) # <<>>
          /\ FoundBy(sample.vehicle_id) # <<>>
          /\ \A i \in 1..Len(FoundBy(sample.vehicle_id)) :
                Unusable(FoundBy(sample.vehicle_id)[i])

\* C30: when the history cannot be read (the read raises, or what it returns
\* is unusable), the call still returns an enriched record, and its stationary
\* flag is false.
C30_UnreadableIsNoHistory ==
    HistoryUnavailable =>
        /\ ~out.raised
        /\ Len(out.records) = 1
        /\ out.records[1].detection_rules.stationary = FALSE

---------------------------------------------------------------------------
(* Claims about the rules and the score (SpecRules) *)

Bit(b) == IF b THEN 1 ELSE 0

SampleSpeed == IF "speed" \in DOMAIN sample THEN sample.speed ELSE 0

StaleFires == detect_stale_data(sample, now)

StationaryFires ==
    detect_stationary(redis, sample.vehicle_id, <<sample.lat, sample.lon>>, now)

OffRouteFires == detect_off_route(sample)

SpeedFires == SampleSpeed > 80 \/ SampleSpeed < 0

C4_StaleIffOlderThan300 ==
    (out.fn = "detect_stale_data" /\ "timestamp" \in DOMAIN sample) =>
        /\ out.value = (now - sample.timestamp > 300)
        /\ now - sample.timestamp = 300 => out.value = FALSE
        /\ now - sample.timestamp = 301 => out.value = TRUE

\* C4 witness: a sample aged exactly 300 s was judged not stale.
C4_Witness ==
    /\ out.fn = "detect_stale_data"
    /\ "timestamp" \in DOMAIN sample
    /\ now - sample.timestamp = 300
    /\ out.value = FALSE

\* The history detect_stationary reads, and the entries that qualify: age at
\* most 600 s, a missing timestamp counting as 0.
C5_History == get_vehicle_history(redis, sample.vehicle_id, now)

C5_Qualifying ==
    {i \in 1..Len(C5_History) :
        now - (IF "timestamp" \in DOMAIN C5_History[i]
               THEN C5_History[i].timestamp ELSE 0) <= 600}

C5_First == CHOOSE i \in C5_Qualifying : \A j \in C5_Qualifying : i <= j

C5_Within50m(i, j) ==
    haversine_distance(C5_History[i].lat, C5_History[i].lon,
                       C5_History[j].lat, C5_History[j].lon) <= 5000

\* C5: detect_stationary looks only at the qualifying history samples; with
\* fewer than two of them it is false, with two or more it is true exactly
\* when every other qualifying sample is within 50 m of the first one.
C5_StationaryFirstVersusRest ==
    out.fn = "detect_stationary" =>
        out.value = (/\ Cardinality(C5_Qualifying) >= 2
                     /\ \A j \in C5_Qualifying \ {C5_First} : C5_Within50m(C5_First, j))

\* C5 witness: three qualifying samples, the second within 50 m of the first,
\* the third beyond it, judged not stationary.
C5_Witness ==
    /\ out.fn = "detect_stationary"
    /\ Cardinality(C5_Qualifying) = 3
    /\ \E j, k \in C5_Qualifying \ {C5_First} :
          C5_Within50m(C5_First, j) /\ ~C5_Within50m(C5_First, k) /\ C5_Within50m(j, k)
    /\ out.value = FALSE

=============================================================================
